---- MODULE Spec2Model ----
(***************************************************************************)
(* Model of the trading-simulation account of engineering_team/output:     *)
(* accounts.py (get_share_price and class Account).                        *)
(*                                                                         *)
(* Money is a Python float (IEEE 754 binary64) in accounts.py.  The model  *)
(* keeps the arithmetic of that format -- round to nearest, ties to even,  *)
(* overflow to infinity, inf - inf = nan, comparisons with nan false --    *)
(* with a narrower significand (MantBits instead of 53 bits) and a smaller *)
(* exponent range (MaxExp), so that the values stay small.  A finite float *)
(* is the integer it denotes; the three special values are integers        *)
(* outside the finite range.  Share quantities are Python ints (exact).    *)
(* A dict iterates in insertion order: holdings_order is that order for    *)
(* self.holdings.  ret is what the last call returned to its caller.       *)
(* threads holds, for each caller running a call statement by statement,   *)
(* the statement it is at, its arguments and the value it has read;        *)
(* interleaved records that a call began while another was under way.      *)
(* The 'timestamp' field of a transaction record is a wall-clock reading   *)
(* that no operation reads back; it is left out of the records.            *)
(***************************************************************************)
EXTENDS Integers, Sequences, FiniteSets, TLC

(* ---------------------------- bounds ----------------------------------- *)
\* number of significand bits of the float format (53 in binary64)
MantBits == 12
\* largest exponent of the unit in the last place (971 in binary64)
MaxExp == 3
\* longest transaction log explored
MaxTxns == 3

(* ---------------------------- float format ----------------------------- *)
RECURSIVE Pow2(_)
Pow2(n) == IF n = 0 THEN 1 ELSE 2 * Pow2(n - 1)

\* the first natural number that needs more than MantBits bits
Radix == Pow2(MantBits)
\* largest finite float
MaxFinite == (Radix - 1) * Pow2(MaxExp)
Inf == MaxFinite + 1
NegInf == -Inf
NaN == MaxFinite + 2

IsFinite(x) == -MaxFinite <= x /\ x <= MaxFinite

\* unit in the last place of the binade that holds the natural number n
RECURSIVE Ulp(_)
Ulp(n) == IF n < Radix THEN 1 ELSE 2 * Ulp(n \div 2)

\* the float nearest to the natural number n: ties go to the even
\* significand, a result beyond the largest finite float is infinity
RoundNat(n) ==
    LET u == Ulp(n)
        m == n \div u
        lo == m * u
        r == n - lo
        near == IF 2 * r < u THEN lo
                ELSE IF 2 * r > u THEN lo + u
                ELSE IF m % 2 = 0 THEN lo ELSE lo + u
    IN  IF near > MaxFinite THEN Inf ELSE near

Round(x) == IF x >= 0 THEN RoundNat(x) ELSE -RoundNat(-x)

FNeg(x) == IF x = NaN THEN NaN ELSE -x

FAdd(x, y) ==
    IF x = NaN \/ y = NaN THEN NaN
    ELSE IF x = Inf THEN (IF y = NegInf THEN NaN ELSE Inf)
    ELSE IF x = NegInf THEN (IF y = Inf THEN NaN ELSE NegInf)
    ELSE IF y = Inf \/ y = NegInf THEN y
    ELSE Round(x + y)

FSub(x, y) == FAdd(x, FNeg(y))

\* product of a positive finite float x (a share price) and a float y
FMul(x, y) ==
    IF y = NaN THEN NaN
    ELSE IF y = Inf \/ y = NegInf THEN y
    ELSE Round(x * y)

\* comparisons: every comparison with nan is false
FLt(x, y) == x # NaN /\ y # NaN /\ x < y
FLe(x, y) == x # NaN /\ y # NaN /\ x <= y
FGt(x, y) == FLt(y, x)
FGe(x, y) == FLe(y, x)

(* ---------------------------- errors ----------------------------------- *)
NoError == "none"
ErrDepositAmount == "Deposit amount must be positive."
ErrWithdrawAmount == "Withdrawal amount must be positive."
ErrWithdrawBalance == "Cannot withdraw more than the available balance."
ErrQuantity == "Quantity must be a positive integer."
ErrUnsupportedSymbol == "Unsupported symbol"
ErrInsufficientFunds == "Insufficient funds to buy shares."
ErrInsufficientShares == "Insufficient shares to sell."
ErrOverflow == "int too large to convert to float"

\* conversion of a Python int to float in int * float: correctly rounded,
\* OverflowError when the int is beyond the float range
ToFloat(q) ==
    IF IsFinite(Round(q)) THEN [error |-> NoError, value |-> Round(q)]
    ELSE [error |-> ErrOverflow, value |-> 0]

(* ---------------------------- price oracle ----------------------------- *)
get_share_price(symbol) ==
    IF symbol = "AAPL" THEN [error |-> NoError, price |-> 150]
    ELSE IF symbol = "TSLA" THEN [error |-> NoError, price |-> 700]
    ELSE IF symbol = "GOOGL" THEN [error |-> NoError, price |-> 2800]
    ELSE [error |-> ErrUnsupportedSymbol, price |-> 0]

(* ---------------------------- Account ---------------------------------- *)
VARIABLES cash_balance, holdings, holdings_order, transactions,
          initial_deposit, last, ret, threads, interleaved

vars == <<cash_balance, holdings, holdings_order, transactions,
          initial_deposit, last, ret, threads, interleaved>>

\* the Account object
Self == [cash_balance |-> cash_balance, holdings |-> holdings,
         holdings_order |-> holdings_order,
         transactions |-> transactions, initial_deposit |-> initial_deposit]

\* dict.get(symbol, 0)
Get(h, symbol) == IF symbol \in DOMAIN h THEN h[symbol] ELSE 0

\* h[symbol] = quantity
SetItem(h, symbol, quantity) ==
    [s \in DOMAIN h \cup {symbol} |-> IF s = symbol THEN quantity ELSE h[s]]

\* del h[symbol]
DelItem(h, symbol) == [s \in DOMAIN h \ {symbol} |-> h[s]]

\* iteration order of a dict after h[symbol] = ...: a new key goes last
OrderSet(order, symbol) ==
    IF \E i \in 1..Len(order) : order[i] = symbol THEN order
    ELSE Append(order, symbol)

\* iteration order of a dict after del h[symbol]
OrderDel(order, symbol) == SelectSeq(order, LAMBDA k : k # symbol)

\* how a call ends: the object as the call leaves it, and the exception
Raise(self, e) == [self |-> self, error |-> e]
Return(self) == [self |-> self, error |-> NoError]

\* deposit with the record put at the head of the log
deposit_log_first(self, amount) ==
    IF FLe(amount, 0) THEN Raise(self, ErrDepositAmount)
    ELSE Return([self EXCEPT
            !.cash_balance = FAdd(@, amount),
            !.initial_deposit = FAdd(@, amount),
            !.transactions = <<[type |-> "deposit", amount |-> amount]>> \o @])

deposit(self, amount) ==
    IF FLe(amount, 0) THEN Raise(self, ErrDepositAmount)
    ELSE Return([self EXCEPT
            !.cash_balance = FAdd(@, amount),
            !.initial_deposit = FAdd(@, amount),
            !.transactions = Append(@, [type |-> "deposit", amount |-> amount])])

withdraw(self, amount) ==
    IF FLe(amount, 0) THEN Raise(self, ErrWithdrawAmount)
    ELSE IF FLt(FSub(self.cash_balance, amount), 0)
         THEN Raise(self, ErrWithdrawBalance)
    ELSE Return([self EXCEPT
            !.cash_balance = FSub(@, amount),
            !.transactions = Append(@, [type |-> "withdraw", amount |-> amount])])

\* buy_shares with the cost taken off the balance before the funds check
buy_shares_deduct_first(self, symbol, quantity) ==
    IF quantity <= 0 THEN Raise(self, ErrQuantity)
    ELSE LET p == get_share_price(symbol)
             qf == ToFloat(quantity)
             total_cost == FMul(p.price, qf.value)
             paid == [self EXCEPT !.cash_balance = FSub(@, total_cost)]
         IN  IF p.error # NoError THEN Raise(self, p.error)
             ELSE IF qf.error # NoError THEN Raise(self, qf.error)
             ELSE IF FGt(total_cost, self.cash_balance)
                  THEN Raise(paid, ErrInsufficientFunds)
             ELSE Return([paid EXCEPT
                    !.holdings = SetItem(@, symbol, Get(@, symbol) + quantity),
                    !.holdings_order = OrderSet(@, symbol),
                    !.transactions = Append(@, [type |-> "buy", symbol |-> symbol,
                                                quantity |-> quantity,
                                                amount |-> total_cost])])

\* buy_shares with the price looked up before the quantity check
buy_shares_price_first(self, symbol, quantity) ==
    LET p == get_share_price(symbol)
        qf == ToFloat(quantity)
        total_cost == FMul(p.price, qf.value)
    IN  IF p.error # NoError THEN Raise(self, p.error)
        ELSE IF quantity <= 0 THEN Raise(self, ErrQuantity)
        ELSE IF qf.error # NoError THEN Raise(self, qf.error)
        ELSE IF FGt(total_cost, self.cash_balance)
             THEN Raise(self, ErrInsufficientFunds)
        ELSE Return([self EXCEPT
               !.cash_balance = FSub(@, total_cost),
               !.holdings = SetItem(@, symbol, Get(@, symbol) + quantity),
               !.holdings_order = OrderSet(@, symbol),
               !.transactions = Append(@, [type |-> "buy", symbol |-> symbol,
                                           quantity |-> quantity,
                                           amount |-> total_cost])])

\* buy_shares with a symbol outside the catalog bought at price 0
buy_shares_any_symbol(self, symbol, quantity) ==
    IF quantity <= 0 THEN Raise(self, ErrQuantity)
    ELSE LET p == get_share_price(symbol)
             qf == ToFloat(quantity)
             total_cost == FMul(p.price, qf.value)
         IN  IF qf.error # NoError THEN Raise(self, qf.error)
             ELSE IF FGt(total_cost, self.cash_balance)
                  THEN Raise(self, ErrInsufficientFunds)
             ELSE Return([self EXCEPT
                    !.cash_balance = FSub(@, total_cost),
                    !.holdings = SetItem(@, symbol, Get(@, symbol) + quantity),
                    !.holdings_order = OrderSet(@, symbol),
                    !.transactions = Append(@, [type |-> "buy", symbol |-> symbol,
                                                quantity |-> quantity,
                                                amount |-> total_cost])])

buy_shares(self, symbol, quantity) ==
    IF quantity <= 0 THEN Raise(self, ErrQuantity)
    ELSE LET p == get_share_price(symbol)
             qf == ToFloat(quantity)
             total_cost == FMul(p.price, qf.value)
         IN  IF p.error # NoError THEN Raise(self, p.error)
             ELSE IF qf.error # NoError THEN Raise(self, qf.error)
             ELSE IF FGt(total_cost, self.cash_balance)
                  THEN Raise(self, ErrInsufficientFunds)
             ELSE Return([self EXCEPT
                    !.cash_balance = FSub(@, total_cost),
                    !.holdings = SetItem(@, symbol, Get(@, symbol) + quantity),
                    !.holdings_order = OrderSet(@, symbol),
                    !.transactions = Append(@, [type |-> "buy", symbol |-> symbol,
                                                quantity |-> quantity,
                                                amount |-> total_cost])])

\* sell_shares without the removal of a key whose quantity reached 0
sell_shares_keep_zero(self, symbol, quantity) ==
    IF quantity <= 0 THEN Raise(self, ErrQuantity)
    ELSE IF Get(self.holdings, symbol) < quantity
         THEN Raise(self, ErrInsufficientShares)
    ELSE LET p == get_share_price(symbol)
             qf == ToFloat(quantity)
             total_proceeds == FMul(p.price, qf.value)
             left == self.holdings[symbol] - quantity
         IN  IF p.error # NoError THEN Raise(self, p.error)
             ELSE IF qf.error # NoError THEN Raise(self, qf.error)
             ELSE Return([self EXCEPT
                    !.cash_balance = FAdd(@, total_proceeds),
                    !.holdings = SetItem(@, symbol, left),
                    !.transactions = Append(@, [type |-> "sell", symbol |-> symbol,
                                                quantity |-> quantity,
                                                amount |-> total_proceeds])])

\* sell_shares with the price looked up before the holdings check
sell_shares_price_first(self, symbol, quantity) ==
    IF quantity <= 0 THEN Raise(self, ErrQuantity)
    ELSE LET p == get_share_price(symbol)
             qf == ToFloat(quantity)
             total_proceeds == FMul(p.price, qf.value)
             left == self.holdings[symbol] - quantity
         IN  IF p.error # NoError THEN Raise(self, p.error)
             ELSE IF Get(self.holdings, symbol) < quantity
                  THEN Raise(self, ErrInsufficientShares)
             ELSE IF qf.error # NoError THEN Raise(self, qf.error)
             ELSE Return([self EXCEPT
                    !.cash_balance = FAdd(@, total_proceeds),
                    !.holdings = IF left = 0 THEN DelItem(@, symbol)
                                 ELSE SetItem(@, symbol, left),
                    !.holdings_order = IF left = 0 THEN OrderDel(@, symbol)
                                       ELSE @,
                    !.transactions = Append(@, [type |-> "sell", symbol |-> symbol,
                                                quantity |-> quantity,
                                                amount |-> total_proceeds])])

sell_shares(self, symbol, quantity) ==
    IF quantity <= 0 THEN Raise(self, ErrQuantity)
    ELSE IF Get(self.holdings, symbol) < quantity
         THEN Raise(self, ErrInsufficientShares)
    ELSE LET p == get_share_price(symbol)
             qf == ToFloat(quantity)
             total_proceeds == FMul(p.price, qf.value)
             left == self.holdings[symbol] - quantity
         IN  IF p.error # NoError THEN Raise(self, p.error)
             ELSE IF qf.error # NoError THEN Raise(self, qf.error)
             ELSE Return([self EXCEPT
                    !.cash_balance = FAdd(@, total_proceeds),
                    !.holdings = IF left = 0 THEN DelItem(@, symbol)
                                 ELSE SetItem(@, symbol, left),
                    !.holdings_order = IF left = 0 THEN OrderDel(@, symbol)
                                       ELSE @,
                    !.transactions = Append(@, [type |-> "sell", symbol |-> symbol,
                                                quantity |-> quantity,
                                                amount |-> total_proceeds])])

(* ---------------------------- reporting -------------------------------- *)
\* An object handed to the caller is either a new object ("new") or one
\* of the Account's own ("self.holdings", "self.transactions").  The items
\* of a list are references to dict objects: i is the i-th record object
\* of self.transactions, 0 an object the caller made.
\* get_holdings with self.holdings itself handed out
get_holdings_alias(self) ==
    [type |-> "dict", obj |-> "self.holdings", items |-> self.holdings]

\* get_holdings: {symbol: quantity for symbol, quantity in
\* self.holdings.items() if quantity > 0}, a new dict
get_holdings(self) ==
    [type |-> "dict", obj |-> "new",
     items |-> [s \in {k \in DOMAIN self.holdings : self.holdings[k] > 0}
                  |-> self.holdings[s]]]

\* self.transactions.copy(): a new list of the same record objects
get_transactions(self) ==
    [type |-> "list", obj |-> "new",
     items |-> [i \in 1..Len(self.transactions) |-> i]]

\* the loop of get_portfolio_value over the items that are left, in the
\* iteration order of the dict
RECURSIVE AddValues(_, _, _)
AddValues(total_value, order, h) ==
    IF order = << >> THEN [error |-> NoError, value |-> total_value]
    ELSE LET symbol == Head(order)
             p == get_share_price(symbol)
             qf == ToFloat(h[symbol])
         IN  IF p.error # NoError THEN [error |-> p.error, value |-> 0]
             ELSE IF qf.error # NoError THEN [error |-> qf.error, value |-> 0]
             ELSE AddValues(FAdd(total_value, FMul(p.price, qf.value)),
                            Tail(order), h)

get_portfolio_value(self) ==
    AddValues(self.cash_balance, self.holdings_order, self.holdings)

\* sum(transaction['amount'] for transaction in log
\*     if transaction['type'] == type): float additions from the left
RECURSIVE FSumAmounts(_, _, _)
FSumAmounts(acc, log, type) ==
    IF log = << >> THEN acc
    ELSE FSumAmounts(IF Head(log).type = type THEN FAdd(acc, Head(log).amount)
                     ELSE acc,
                     Tail(log), type)

get_profit_loss(self) ==
    LET net_deposits == FSub(self.initial_deposit,
                             FSumAmounts(0, self.transactions, "withdraw"))
        v == get_portfolio_value(self)
    IN  IF v.error # NoError THEN v
        ELSE [error |-> NoError, value |-> FSub(v.value, net_deposits)]

(* ---------------------------- arguments -------------------------------- *)
\* a float whose last place is 4 units and whose significand is odd
BigAmount == 3 * Radix + 4
Amounts == {-1, 0, 1, 150, BigAmount, MaxFinite}
Symbols == {"AAPL", "GOOGL", "ZZZZ"}
\* MaxFinite shares cost more than the largest float; 2 * MaxFinite is an
\* int that does not convert to float
Quantities == {-1, 0, 1, MaxFinite, 2 * MaxFinite}

NoArg == [amount |-> 0, symbol |-> "", quantity |-> 0]

(* ---------------------------- behaviour -------------------------------- *)
\* what deposit, withdraw, buy_shares and sell_shares return
None == [type |-> "None"]

\* the callers of the Account: one in Spec, two in the interleaved runs
Threads == {1, 2}
\* a caller that is not inside a call
NoCall == [op |-> "", amount |-> 0, symbol |-> "", quantity |-> 0]
Idle == [pc |-> "idle", call |-> NoCall, tmp |-> 0]

\* the log of the object a call leaves is within the explored length
Explored(r) == Len(r.self.transactions) <= MaxTxns

\* the record of a call: its arguments and how it ended
Call(r, op, args) ==
    [op |-> op, amount |-> args.amount, symbol |-> args.symbol,
     quantity |-> args.quantity, error |-> r.error]

Init ==
    /\ cash_balance = 0
    /\ holdings = [s \in {} |-> 0]
    /\ transactions = << >>
    /\ initial_deposit = 0
    /\ holdings_order = << >>
    /\ last = [op |-> "init", amount |-> 0, symbol |-> "", quantity |-> 0,
               error |-> NoError]
    /\ ret = None
    /\ threads = [t \in Threads |-> Idle]
    /\ interleaved = FALSE

Deposit ==
    \E amount \in Amounts :
        LET r == deposit(Self, amount)
        IN  /\ Explored(r)
            /\ cash_balance' = r.self.cash_balance
            /\ holdings' = r.self.holdings
            /\ holdings_order' = r.self.holdings_order
            /\ ret' = None
            /\ UNCHANGED <<threads, interleaved>>
            /\ transactions' = r.self.transactions
            /\ initial_deposit' = r.self.initial_deposit
            /\ last' = Call(r, "deposit", [NoArg EXCEPT !.amount = amount])

Withdraw ==
    \E amount \in Amounts :
        LET r == withdraw(Self, amount)
        IN  /\ Explored(r)
            /\ cash_balance' = r.self.cash_balance
            /\ holdings' = r.self.holdings
            /\ holdings_order' = r.self.holdings_order
            /\ ret' = None
            /\ UNCHANGED <<threads, interleaved>>
            /\ transactions' = r.self.transactions
            /\ initial_deposit' = r.self.initial_deposit
            /\ last' = Call(r, "withdraw", [NoArg EXCEPT !.amount = amount])

BuyShares ==
    \E symbol \in Symbols, quantity \in Quantities :
        LET r == buy_shares(Self, symbol, quantity)
        IN  /\ Explored(r)
            /\ cash_balance' = r.self.cash_balance
            /\ holdings' = r.self.holdings
            /\ holdings_order' = r.self.holdings_order
            /\ ret' = None
            /\ UNCHANGED <<threads, interleaved>>
            /\ transactions' = r.self.transactions
            /\ initial_deposit' = r.self.initial_deposit
            /\ last' = Call(r, "buy", [NoArg EXCEPT !.symbol = symbol,
                                                    !.quantity = quantity])

SellShares ==
    \E symbol \in Symbols, quantity \in Quantities :
        LET r == sell_shares(Self, symbol, quantity)
        IN  /\ Explored(r)
            /\ cash_balance' = r.self.cash_balance
            /\ holdings' = r.self.holdings
            /\ holdings_order' = r.self.holdings_order
            /\ ret' = None
            /\ UNCHANGED <<threads, interleaved>>
            /\ transactions' = r.self.transactions
            /\ initial_deposit' = r.self.initial_deposit
            /\ last' = Call(r, "sell", [NoArg EXCEPT !.symbol = symbol,
                                                     !.quantity = quantity])

Next == Deposit \/ Withdraw \/ BuyShares \/ SellShares

Spec == Init /\ [][Next]_vars

(* ---------------------------- reporting calls and their caller --------- *)
ReportingOps ==
    {"get_holdings", "get_portfolio_value", "get_profit_loss", "get_transactions"}

\* the record of a call without arguments that did not raise
Reported(op) == [NoArg EXCEPT !.amount = 0] @@ [op |-> op, error |-> NoError]

\* a float handed to the caller, or the exception in its place
Outcome(v) ==
    IF v.error = NoError THEN [type |-> "float", value |-> v.value]
    ELSE [type |-> "raise", error |-> v.error]

GetHoldings ==
    /\ ret' = get_holdings(Self)
    /\ last' = Reported("get_holdings")
    /\ UNCHANGED <<cash_balance, holdings, holdings_order, transactions,
                   initial_deposit, threads, interleaved>>

GetPortfolioValue ==
    /\ ret' = Outcome(get_portfolio_value(Self))
    /\ last' = [Reported("get_portfolio_value")
                   EXCEPT !.error = get_portfolio_value(Self).error]
    /\ UNCHANGED <<cash_balance, holdings, holdings_order, transactions,
                   initial_deposit, threads, interleaved>>

GetProfitLoss ==
    /\ ret' = Outcome(get_profit_loss(Self))
    /\ last' = [Reported("get_profit_loss")
                   EXCEPT !.error = get_profit_loss(Self).error]
    /\ UNCHANGED <<cash_balance, holdings, holdings_order, transactions,
                   initial_deposit, threads, interleaved>>

GetTransactions ==
    /\ ret' = get_transactions(Self)
    /\ last' = Reported("get_transactions")
    /\ UNCHANGED <<cash_balance, holdings, holdings_order, transactions,
                   initial_deposit, threads, interleaved>>

\* what the caller does with the object it was handed
CallerDid == Reported("caller")
\* a record object the caller made
CallerRecord == [type |-> "caller", amount |-> 0]
\* the symbols the caller writes into a dict it was handed
CallerSymbols == {"AAPL", "ZZZZ"}

\* the record objects a list of references stands for
Deref(items, log) ==
    [j \in 1..Len(items) |-> IF items[j] = 0 THEN CallerRecord ELSE log[items[j]]]

\* returned[symbol] = 0 on the dict of get_holdings
CallerSetItem ==
    /\ ret.type = "dict"
    /\ \E symbol \in CallerSymbols :
          LET items == SetItem(ret.items, symbol, 0)
          IN  /\ ret' = [ret EXCEPT !.items = items]
              /\ IF ret.obj = "self.holdings"
                 THEN /\ holdings' = items
                      /\ holdings_order' = OrderSet(holdings_order, symbol)
                 ELSE UNCHANGED <<holdings, holdings_order>>
    /\ last' = CallerDid
    /\ UNCHANGED <<cash_balance, transactions, initial_deposit, threads,
                   interleaved>>

\* returned.pop() and returned.append(record) on the list of
\* get_transactions
CallerChangeList ==
    /\ ret.type = "list"
    /\ \E items \in {SubSeq(ret.items, 1, Len(ret.items) - 1),
                     Append(ret.items, 0)} :
          /\ Len(items) <= Len(transactions) + 1
          /\ (items = << >> => ret.items # << >>)
          /\ ret' = [ret EXCEPT !.items = items]
          /\ IF ret.obj = "self.transactions"
             THEN transactions' = Deref(items, transactions)
             ELSE UNCHANGED transactions
    /\ last' = CallerDid
    /\ UNCHANGED <<cash_balance, holdings, holdings_order, initial_deposit,
                   threads, interleaved>>

\* the positions of the returned list whose record the caller writes
CallerIndexes == {1}

\* returned[j - 1]['amount'] = 0 on a record of the list of
\* get_transactions: the record is the object the Account's log holds
CallerSetField ==
    /\ ret.type = "list"
    /\ \E j \in CallerIndexes \cap DOMAIN ret.items :
          /\ ret.items[j] # 0
          /\ transactions' = [transactions EXCEPT ![ret.items[j]].amount = 0]
    /\ ret' = ret
    /\ last' = CallerDid
    /\ UNCHANGED <<cash_balance, holdings, holdings_order, initial_deposit,
                   threads, interleaved>>

Reporting ==
    GetHoldings \/ GetPortfolioValue \/ GetProfitLoss \/ GetTransactions

\* the Account with its reporting calls and a caller that changes the
\* mapping it is handed
NextReport == Next \/ Reporting \/ CallerSetItem
SpecReport == Init /\ [][NextReport]_vars

\* the same with a caller that also changes the list it is handed and
\* writes into its records
NextCaller == NextReport \/ CallerChangeList \/ CallerSetField
SpecCaller == Init /\ [][NextCaller]_vars

(* ---------------------------- two callers, statement by statement ------ *)
\* The UI callbacks call the methods of one module-global Account with no
\* lock.  A call is run as its statements; 'x += y' on an attribute is a
\* read of the attribute followed by a write.
ErrKey == "KeyError"

\* the calls the two callers make
ThreadCalls ==
    {[op |-> "deposit", amount |-> 150, symbol |-> "", quantity |-> 0],
     [op |-> "withdraw", amount |-> 100, symbol |-> "", quantity |-> 0],
     [op |-> "buy", amount |-> 0, symbol |-> "AAPL", quantity |-> 1],
     [op |-> "sell", amount |-> 0, symbol |-> "AAPL", quantity |-> 1]}

\* the callers inside a call
Active == {t \in Threads : threads[t].pc # "idle"}

\* the checks of a method with the balance checks left out
Validate_no_balance(self, c) ==
    LET rich == [self EXCEPT !.cash_balance = Inf]
    IN  CASE c.op = "deposit"  -> deposit(rich, c.amount).error
          [] c.op = "withdraw" -> withdraw(rich, c.amount).error
          [] c.op = "buy"      -> buy_shares(rich, c.symbol, c.quantity).error
          [] c.op = "sell"     -> sell_shares(rich, c.symbol, c.quantity).error

\* the checks a method makes before its first assignment: the exception it
\* raises on the object as it is now
Validate(self, c) ==
    CASE c.op = "deposit"  -> deposit(self, c.amount).error
      [] c.op = "withdraw" -> withdraw(self, c.amount).error
      [] c.op = "buy"      -> buy_shares(self, c.symbol, c.quantity).error
      [] c.op = "sell"     -> sell_shares(self, c.symbol, c.quantity).error

\* amount, total_cost or total_proceeds of a call
Money(c) ==
    IF c.op \in {"deposit", "withdraw"} THEN c.amount
    ELSE FMul(get_share_price(c.symbol).price, ToFloat(c.quantity).value)

\* the record a call appends
Record(c) ==
    IF c.op \in {"deposit", "withdraw"}
    THEN [type |-> c.op, amount |-> c.amount]
    ELSE [type |-> c.op, symbol |-> c.symbol, quantity |-> c.quantity,
          amount |-> Money(c)]

\* what a call leaves in last when it ends
Ended(c, e) == [c EXCEPT !.amount = c.amount] @@ [error |-> e]

\* a caller enters a method
ThreadCall ==
    \E t \in Threads, c \in ThreadCalls :
        /\ threads[t].pc = "idle"
        /\ Len(transactions) + Cardinality(Active) < MaxTxns
        /\ threads' = [threads EXCEPT ![t] = [pc |-> "validate", call |-> c,
                                              tmp |-> 0]]
        /\ interleaved' = (interleaved \/ Active # {})
        /\ UNCHANGED <<cash_balance, holdings, holdings_order, transactions,
                       initial_deposit, last, ret>>

\* the if ... raise statements of the method
ThreadValidate ==
    \E t \in Threads :
        /\ threads[t].pc = "validate"
        /\ LET e == Validate(Self, threads[t].call)
           IN  IF e # NoError
               THEN /\ threads' = [threads EXCEPT ![t] = Idle]
                    /\ last' = Ended(threads[t].call, e)
               ELSE /\ threads' = [threads EXCEPT ![t].pc = "load_cash"]
                    /\ UNCHANGED last
        /\ UNCHANGED <<cash_balance, holdings, holdings_order, transactions,
                       initial_deposit, ret, interleaved>>

\* self.cash_balance += / -= ...: the read
ThreadLoadCash ==
    \E t \in Threads :
        /\ threads[t].pc = "load_cash"
        /\ threads' = [threads EXCEPT ![t].pc = "store_cash",
                                      ![t].tmp = cash_balance]
        /\ UNCHANGED <<cash_balance, holdings, holdings_order, transactions,
                       initial_deposit, last, ret, interleaved>>

\* self.cash_balance += / -= ...: the write
ThreadStoreCash ==
    \E t \in Threads :
        LET c == threads[t].call
        IN  /\ threads[t].pc = "store_cash"
            /\ cash_balance' = IF c.op \in {"deposit", "sell"}
                               THEN FAdd(threads[t].tmp, Money(c))
                               ELSE FSub(threads[t].tmp, Money(c))
            /\ threads' = [threads EXCEPT ![t].pc =
                              CASE c.op = "deposit"  -> "load_initial"
                                [] c.op = "withdraw" -> "append"
                                [] OTHER             -> "load_holding"]
            /\ UNCHANGED <<holdings, holdings_order, transactions,
                           initial_deposit, last, ret, interleaved>>

\* self.initial_deposit += amount: the read
ThreadLoadInitial ==
    \E t \in Threads :
        /\ threads[t].pc = "load_initial"
        /\ threads' = [threads EXCEPT ![t].pc = "store_initial",
                                      ![t].tmp = initial_deposit]
        /\ UNCHANGED <<cash_balance, holdings, holdings_order, transactions,
                       initial_deposit, last, ret, interleaved>>

\* self.initial_deposit += amount: the write
ThreadStoreInitial ==
    \E t \in Threads :
        /\ threads[t].pc = "store_initial"
        /\ initial_deposit' = FAdd(threads[t].tmp, threads[t].call.amount)
        /\ threads' = [threads EXCEPT ![t].pc = "append"]
        /\ UNCHANGED <<cash_balance, holdings, holdings_order, transactions,
                       last, ret, interleaved>>

\* self.holdings.get(symbol, 0) of buy_shares, self.holdings[symbol] of
\* sell_shares (KeyError when the key is gone)
ThreadLoadHolding ==
    \E t \in Threads :
        LET c == threads[t].call
        IN  /\ threads[t].pc = "load_holding"
            /\ IF c.op = "sell" /\ c.symbol \notin DOMAIN holdings
               THEN /\ threads' = [threads EXCEPT ![t] = Idle]
                    /\ last' = Ended(c, ErrKey)
               ELSE /\ threads' = [threads EXCEPT
                                      ![t].pc = "store_holding",
                                      ![t].tmp = Get(holdings, c.symbol)]
                    /\ UNCHANGED last
            /\ UNCHANGED <<cash_balance, holdings, holdings_order,
                           transactions, initial_deposit, ret, interleaved>>

\* self.holdings[symbol] = ... + quantity / ... - quantity: the write
ThreadStoreHolding ==
    \E t \in Threads :
        LET c == threads[t].call
        IN  /\ threads[t].pc = "store_holding"
            /\ holdings' = SetItem(holdings, c.symbol,
                                   IF c.op = "buy"
                                   THEN threads[t].tmp + c.quantity
                                   ELSE threads[t].tmp - c.quantity)
            /\ holdings_order' = OrderSet(holdings_order, c.symbol)
            /\ threads' = [threads EXCEPT ![t].pc =
                              IF c.op = "buy" THEN "append" ELSE "prune"]
            /\ UNCHANGED <<cash_balance, transactions, initial_deposit,
                           last, ret, interleaved>>

\* if self.holdings[symbol] == 0: del self.holdings[symbol]
ThreadPrune ==
    \E t \in Threads :
        LET c == threads[t].call
        IN  /\ threads[t].pc = "prune"
            /\ IF c.symbol \notin DOMAIN holdings
               THEN /\ threads' = [threads EXCEPT ![t] = Idle]
                    /\ last' = Ended(c, ErrKey)
                    /\ UNCHANGED <<holdings, holdings_order>>
               ELSE /\ threads' = [threads EXCEPT ![t].pc = "append"]
                    /\ UNCHANGED last
                    /\ IF holdings[c.symbol] = 0
                       THEN /\ holdings' = DelItem(holdings, c.symbol)
                            /\ holdings_order' =
                                  OrderDel(holdings_order, c.symbol)
                       ELSE UNCHANGED <<holdings, holdings_order>>
            /\ UNCHANGED <<cash_balance, transactions, initial_deposit,
                           ret, interleaved>>

\* self.transactions.append({...}) and the return
ThreadAppend ==
    \E t \in Threads :
        /\ threads[t].pc = "append"
        /\ transactions' = Append(transactions, Record(threads[t].call))
        /\ threads' = [threads EXCEPT ![t] = Idle]
        /\ last' = Ended(threads[t].call, NoError)
        /\ UNCHANGED <<cash_balance, holdings, holdings_order,
                       initial_deposit, ret, interleaved>>

NextThreads ==
    \/ ThreadCall \/ ThreadValidate
    \/ ThreadLoadCash \/ ThreadStoreCash
    \/ ThreadLoadInitial \/ ThreadStoreInitial
    \/ ThreadLoadHolding \/ ThreadStoreHolding
    \/ ThreadPrune \/ ThreadAppend
SpecThreads == Init /\ [][NextThreads]_vars

TypeOK ==
    /\ cash_balance \in Int
    /\ initial_deposit \in Int
    /\ DOMAIN holdings \subseteq Symbols
    /\ Len(transactions) <= MaxTxns
(* ---------------------------- claims ----------------------------------- *)
\* the part of the Account the claims call its state
state == <<cash_balance, holdings, initial_deposit, transactions>>

\* the call that the step ends was made with a priced symbol
Price(symbol) == get_share_price(symbol).price
Priced(symbol) == get_share_price(symbol).error = NoError

\* C1: every call of deposit, withdraw, buy_shares or sell_shares either
\* succeeds and appends exactly one record to the log, or fails with an
\* error and leaves cash_balance, holdings, initial_deposit and
\* transactions as they were.
C1_Atomic ==
    [][IF last'.error = NoError
       THEN /\ Len(transactions') = Len(transactions) + 1
            /\ SubSeq(transactions', 1, Len(transactions)) = transactions
       ELSE UNCHANGED state]_vars

\* a buy that got as far as the funds check and failed there, on an
\* account that holds cash
C1_Witness ==
    /\ last.op = "buy"
    /\ last.error = ErrInsufficientFunds
    /\ FGt(cash_balance, 0)

\* C2: cash_balance >= 0 in every state reachable by deposit, withdraw,
\* buy_shares and sell_shares calls executed one at a time.
C2_NonNegative == FGe(cash_balance, 0)

\* C3: every value stored in holdings is a strictly positive integer; a
\* sell that brings a quantity to 0 removes the key.
C3_HoldingsPositive ==
    \A s \in DOMAIN holdings : holdings[s] \in Int /\ holdings[s] > 0

\* a sell that sold the whole position, after which the key is gone
C3_Witness ==
    /\ last.op = "sell"
    /\ last.error = NoError
    /\ last.symbol \notin DOMAIN holdings
\* the float x denotes exactly the number n
ExactEq(x, n) == IsFinite(x) /\ x = n

\* the exact sum of the amounts of the records of one type in a log
RECURSIVE SumAmounts(_, _)
SumAmounts(log, type) ==
    IF log = << >> THEN 0
    ELSE (IF Head(log).type = type THEN Head(log).amount ELSE 0)
         + SumAmounts(Tail(log), type)

OnlyDeposits(log) == \A i \in 1..Len(log) : log[i].type = "deposit"

\* C4: for q > 0 and a priced symbol s with price p, buy_shares(s, q)
\* succeeds if and only if p*q <= cash_balance; on success cash_balance
\* decreases by exactly p*q, holdings[s] increases by exactly q and every
\* other entry is unchanged; on failure for insufficient funds the state is
\* unchanged.  (Stated for a finite cash_balance.)
C4_BuyCondition ==
    [][(/\ last'.op = "buy"
        /\ last'.quantity > 0
        /\ Priced(last'.symbol)
        /\ IsFinite(cash_balance))
       => LET s == last'.symbol
              q == last'.quantity
              cost == Price(s) * q
          IN  /\ (last'.error = NoError) <=> (cost <= cash_balance)
              /\ last'.error = NoError =>
                    /\ ExactEq(cash_balance', cash_balance - cost)
                    /\ holdings' = SetItem(holdings, s, Get(holdings, s) + q)
              /\ last'.error = ErrInsufficientFunds => UNCHANGED state]_vars

\* C5: from any reachable state, a successful buy_shares(s, q) immediately
\* followed by sell_shares(s, q) restores cash_balance to its exact prior
\* value and removes s from holdings.
C5_RoundTrip ==
    \A s \in Symbols, q \in Quantities :
        LET b == buy_shares(Self, s, q)
            r == sell_shares(b.self, s, q)
        IN  b.error = NoError =>
                /\ r.error = NoError
                /\ r.self.cash_balance = cash_balance
                /\ s \notin DOMAIN r.self.holdings

\* C6: withdraw(amount) with amount > cash_balance fails with the
\* insufficient-funds error and leaves cash_balance and transactions
\* unchanged; with 0 < amount <= cash_balance it succeeds, decreases
\* cash_balance by exactly amount, appends one withdraw record and leaves
\* initial_deposit and holdings unchanged.  (Stated for a finite
\* cash_balance.)
C6_Withdraw ==
    [][(last'.op = "withdraw" /\ IsFinite(cash_balance))
       => LET a == last'.amount
          IN  /\ a > cash_balance =>
                    /\ last'.error = ErrWithdrawBalance
                    /\ UNCHANGED <<cash_balance, transactions>>
              /\ (0 < a /\ a <= cash_balance) =>
                    /\ last'.error = NoError
                    /\ ExactEq(cash_balance', cash_balance - a)
                    /\ transactions' =
                          Append(transactions, [type |-> "withdraw", amount |-> a])
                    /\ UNCHANGED <<initial_deposit, holdings>>]_vars

\* C7: sell_shares(symbol, q) with q > 0 and q greater than the quantity
\* held (0 for an absent symbol, priced or not) fails with the
\* insufficient-holdings error, never with the price oracle's error, and
\* changes no state.
C7_Oversell ==
    [][(/\ last'.op = "sell"
        /\ last'.quantity > 0
        /\ last'.quantity > Get(holdings, last'.symbol))
       => /\ last'.error = ErrInsufficientShares
          /\ UNCHANGED state]_vars

\* an oversell of a symbol the price oracle cannot price
C7_Witness ==
    /\ last.op = "sell"
    /\ ~Priced(last.symbol)
    /\ last.quantity > Get(holdings, last.symbol)
    /\ last.error = ErrInsufficientShares

\* C8: after every operation initial_deposit equals the sum of the amounts
\* of the deposit records of the log, and it is not less than before.
C8_LifetimeDeposits ==
    [][/\ ExactEq(initial_deposit', SumAmounts(transactions', "deposit"))
       /\ FGe(initial_deposit', initial_deposit)]_vars

\* C9: deposit(amount) fails with the invalid-amount error when amount <= 0
\* and otherwise succeeds; after valid deposits d1..dn and no other
\* successful operation, cash_balance and initial_deposit equal the sum of
\* the di, holdings is empty and the log holds the n deposit records.
C9_Deposits ==
    [][last'.op = "deposit"
       => LET a == last'.amount
          IN  /\ a <= 0 => last'.error = ErrDepositAmount /\ UNCHANGED state
              /\ a > 0 =>
                    /\ last'.error = NoError
                    /\ transactions' =
                          Append(transactions, [type |-> "deposit", amount |-> a])
              /\ OnlyDeposits(transactions') =>
                    /\ ExactEq(cash_balance', SumAmounts(transactions', "deposit"))
                    /\ ExactEq(initial_deposit', SumAmounts(transactions', "deposit"))
                    /\ holdings' = [s \in {} |-> 0]]_vars

\* the amount an operation names as the cash it moves: the amount argument
\* of deposit and withdraw, price * quantity (as the handler computes it)
\* of buy_shares and sell_shares
Moved(call) ==
    IF call.op \in {"deposit", "withdraw"} THEN call.amount
    ELSE FMul(Price(call.symbol), ToFloat(call.quantity).value)

RECURSIVE HeldValue(_, _)
HeldValue(h, S) ==
    IF S = {} THEN 0
    ELSE LET s == CHOOSE x \in S : TRUE
         IN  h[s] * Price(s) + HeldValue(h, S \ {s})

\* what the reporting calls return in the current state
PortfolioValue == get_portfolio_value(Self)
ProfitLoss == get_profit_loss(Self)

\* C12: get_portfolio_value() equals cash_balance plus the sum over the
\* held symbols of quantity * price, in every reachable state.  (Stated for
\* a finite cash_balance.)
C12_PortfolioValue ==
    IsFinite(cash_balance) =>
        /\ PortfolioValue.error = NoError
        /\ ExactEq(PortfolioValue.value,
                   cash_balance + HeldValue(holdings, DOMAIN holdings))

\* C13: buy_shares(symbol, q) with q <= 0 fails with the invalid-quantity
\* error whatever the balance and the symbol; with q > 0 and an unpriced
\* symbol it fails with the unknown-symbol error whatever the balance; in
\* both cases no record is appended and no state changes.
C13_BuyValidation ==
    [][last'.op = "buy"
       => /\ last'.quantity <= 0 =>
                last'.error = ErrQuantity /\ UNCHANGED state
          /\ (last'.quantity > 0 /\ ~Priced(last'.symbol)) =>
                last'.error = ErrUnsupportedSymbol /\ UNCHANGED state]_vars

\* a buy of an unpriced symbol refused on an account that holds cash
C13_Witness ==
    /\ last.op = "buy"
    /\ last.quantity > 0
    /\ ~Priced(last.symbol)
    /\ last.error = ErrUnsupportedSymbol
    /\ FGt(cash_balance, 0)

\* C14: in a state reached from a new account by successful deposits
\* alone, get_profit_loss() is 0.
C14_DepositsOnly ==
    (transactions # << >> /\ OnlyDeposits(transactions)) =>
        ProfitLoss = [error |-> NoError, value |-> 0]

\* C15: a successful sell_shares never decreases get_profit_loss(), and a
\* successful buy_shares or sell_shares leaves get_portfolio_value() and
\* get_profit_loss() exactly unchanged.
C15_ValueNeutral ==
    [][(last'.op \in {"buy", "sell"} /\ last'.error = NoError)
       => /\ last'.op = "sell" => FGe(ProfitLoss'.value, ProfitLoss.value)
          /\ PortfolioValue' = PortfolioValue
          /\ ProfitLoss' = ProfitLoss]_vars

\* C17: every key of holdings is a symbol of the price catalog, so
\* get_portfolio_value() and get_profit_loss() never fail with the
\* unknown-symbol error, and neither does the price lookup of sell_shares.
C17_HoldingsPriced ==
    /\ \A s \in DOMAIN holdings : Priced(s)
    /\ PortfolioValue.error # ErrUnsupportedSymbol
    /\ ProfitLoss.error # ErrUnsupportedSymbol
    /\ last.op = "sell" => last.error # ErrUnsupportedSymbol

\* two symbols held, the second just bought, and the portfolio valued
C17_Witness ==
    /\ last.op = "buy"
    /\ last.error = NoError
    /\ Cardinality(DOMAIN holdings) = 2
    /\ PortfolioValue.error = NoError
\* the exact sum of the quantities of the records of one type and symbol
RECURSIVE SumQuantities(_, _, _)
SumQuantities(log, type, symbol) ==
    IF log = << >> THEN 0
    ELSE (IF Head(log).type = type /\ Head(log).symbol = symbol
          THEN Head(log).quantity ELSE 0)
         + SumQuantities(Tail(log), type, symbol)

\* the cash balance a log replays to, in exact arithmetic
ReplayCash(log) ==
    SumAmounts(log, "deposit") - SumAmounts(log, "withdraw")
    - SumAmounts(log, "buy") + SumAmounts(log, "sell")

\* the quantity of a symbol a log replays to
ReplayQuantity(log, symbol) ==
    SumQuantities(log, "buy", symbol) - SumQuantities(log, "sell", symbol)

\* C19: the log determines the state: cash_balance equals deposits minus
\* withdrawals minus buys plus sells, the held quantity of every symbol
\* equals its bought minus its sold quantity, the symbol being absent from
\* holdings exactly when that difference is 0, and every prefix of the log
\* replays to a cash balance >= 0.
C19_Replay ==
    /\ ExactEq(cash_balance, ReplayCash(transactions))
    /\ \A s \in Symbols :
          /\ Get(holdings, s) = ReplayQuantity(transactions, s)
          /\ s \notin DOMAIN holdings <=> ReplayQuantity(transactions, s) = 0
    /\ \A n \in 0..Len(transactions) :
          ReplayCash(SubSeq(transactions, 1, n)) >= 0

\* C20: cash_balance plus the value of the holdings at the catalog prices
\* equals initial_deposit minus the sum of the withdraw amounts, so
\* get_profit_loss() is 0 in every reachable state.  (Stated for a finite
\* cash_balance and initial_deposit.)
C20_Conservation ==
    (IsFinite(cash_balance) /\ IsFinite(initial_deposit)) =>
        /\ cash_balance + HeldValue(holdings, DOMAIN holdings)
              = initial_deposit - SumAmounts(transactions, "withdraw")
        /\ ProfitLoss = [error |-> NoError, value |-> 0]

\* C11: the caller cannot change the Account's log through the value
\* get_transactions() returned, neither by adding or removing elements of
\* the returned list nor by changing fields of the returned records.
C11_LogIsolated ==
    [][last'.op = "caller" => UNCHANGED transactions]_vars

\* C18: get_holdings, get_portfolio_value, get_profit_loss and
\* get_transactions leave cash_balance, holdings, initial_deposit and
\* transactions unchanged; get_holdings returns a mapping equal to holdings
\* with no zero entry, and a change the caller makes to it does not alter
\* the Account's holdings.
C18_ReportingPure ==
    [][/\ last'.op \in ReportingOps => UNCHANGED state
       /\ last'.op = "get_holdings" =>
             /\ ret'.items = holdings
             /\ \A s \in DOMAIN ret'.items : ret'.items[s] # 0
       /\ (last'.op = "caller" /\ ret.type = "dict") =>
             UNCHANGED holdings]_vars

\* the caller zeroed an entry of the mapping get_holdings returned, and the
\* Account still holds the shares
C18_Witness ==
    /\ last.op = "caller"
    /\ ret.type = "dict"
    /\ \E s \in DOMAIN holdings : ret.items[s] = 0 /\ holdings[s] > 0
====
